---- MODULE Spec2Model ----
(***************************************************************************)
(* vcfsample2info: per-record aggregation of a per-sample field into a     *)
(* site-level INFO annotation (src/src/vcfsample2info.cpp).                *)
(*                                                                         *)
(* Strings are sequences of one-character strings, so that concatenation   *)
(* is \o and two texts are equal exactly when their characters are.        *)
(* Doubles are exact rationals [n, d] with d > 0; d = 0 stands for the     *)
(* IEEE quotient by zero (0/0 is NaN).                                     *)
(***************************************************************************)
EXTENDS Integers, Sequences, FiniteSets, TLC

\* ------------------------------------------------------------------ bounds

\* Largest argc of an invocation (program name included).
MaxArgc == 4
\* Largest number of records the input stream of Spec holds.
MaxRecords == 2

\* ------------------------------------------------------------------ text

sEmpty == <<>>
sDP == <<"D", "P">>
sGT == <<"G", "T">>
sAF == <<"A", "F">>
sDPM == <<"D", "P", "M">>

Digits == <<"0", "1", "2", "3", "4", "5", "6", "7", "8", "9">>

IsDigit(ch) == \E i \in 1..10 : Digits[i] = ch

DigitVal(ch) == (CHOOSE i \in 1..10 : Digits[i] = ch) - 1

RECURSIVE DigitsToNat(_)
DigitsToNat(s) ==
    IF s = <<>> THEN 0
    ELSE 10 * DigitsToNat(SubSeq(s, 1, Len(s) - 1)) + DigitVal(s[Len(s)])

RECURSIVE NatToDigits(_)
NatToDigits(k) ==
    IF k < 10 THEN <<Digits[k + 1]>>
    ELSE NatToDigits(k \div 10) \o <<Digits[(k % 10) + 1]>>

RECURSIVE Pow10(_)
Pow10(k) == IF k = 0 THEN 1 ELSE 10 * Pow10(k - 1)

\* ------------------------------------------------------------------ doubles

Abs(x) == IF x < 0 THEN -x ELSE x

RECURSIVE GCD(_, _)
GCD(a, b) == IF b = 0 THEN a ELSE GCD(b, a % b)

Rat(num, den) ==
    LET g == GCD(Abs(num), den)
    IN  IF den = 0 THEN [n |-> IF num > 0 THEN 1 ELSE IF num < 0 THEN -1 ELSE 0, d |-> 0]
        ELSE [n |-> num \div g, d |-> den \div g]

NaN == [n |-> 0, d |-> 0]

IsFinite(q) == q.d > 0

RatAdd(a, b) == Rat(a.n * b.d + b.n * a.d, a.d * b.d)

\* a / k for a size_t k (k = 0 gives the IEEE quotient by zero)
RatDiv(a, k) == Rat(a.n, a.d * k)

RatLess(a, b) == a.n * b.d < b.n * a.d

\* The texts that are decimal numbers, and their values.
ParseOk(s) ==
    LET dots == {i \in 1..Len(s) : s[i] = "."}
    IN  /\ s # <<>>
        /\ Cardinality(dots) <= 1
        /\ \A i \in 1..Len(s) : IsDigit(s[i]) \/ s[i] = "."
        /\ \E i \in 1..Len(s) : IsDigit(s[i])

ParseVal(s) ==
    LET dots == {i \in 1..Len(s) : s[i] = "."}
        p    == IF dots = {} THEN Len(s) + 1 ELSE CHOOSE i \in dots : TRUE
        ip   == SubSeq(s, 1, p - 1)
        fp   == SubSeq(s, p + 1, Len(s))
    IN  Rat(DigitsToNat(ip) * Pow10(Len(fp)) + DigitsToNat(fp), Pow10(Len(fp)))

convert_ZeroOnFailure(s) ==
    [ok |-> TRUE, val |-> IF ParseOk(s) THEN ParseVal(s) ELSE Rat(0, 1)]

\* convert(s, val) at line 193: the value of s, or a fatal error when s is no number.
convert(s) ==
    IF ParseOk(s) THEN [ok |-> TRUE, val |-> ParseVal(s)]
    ELSE [ok |-> FALSE, val |-> Rat(0, 1)]

\* convert(double): the text an ostream gives a double (six significant digits,
\* fixed notation, trailing zeros dropped).  Values of 10^6 and more, which take
\* the exponent form, are outside the inputs modelled.
RECURSIVE StripZeros(_)
StripZeros(s) ==
    IF s # <<>> /\ s[Len(s)] = "0" THEN StripZeros(SubSeq(s, 1, Len(s) - 1)) ELSE s

RECURSIVE PadLeft(_, _)
PadLeft(s, w) == IF Len(s) >= w THEN s ELSE PadLeft(<<"0">> \o s, w)

FormatFixed(q) ==
    LET D0     == CHOOSE D \in 0..12 :
                     /\ (q.n * Pow10(D)) \div q.d >= 100000
                     /\ \A E \in 0..(D - 1) : (q.n * Pow10(E)) \div q.d < 100000
        r0     == (2 * q.n * Pow10(D0) + q.d) \div (2 * q.d)
        D      == IF r0 >= 1000000 /\ D0 > 0 THEN D0 - 1 ELSE D0
        r      == IF r0 >= 1000000 /\ D0 > 0 THEN r0 \div 10 ELSE r0
        ip     == NatToDigits(r \div Pow10(D))
        fp     == StripZeros(PadLeft(NatToDigits(r % Pow10(D)), D))
    IN  IF fp = <<>> THEN ip ELSE ip \o <<".">> \o fp

FormatDouble(q) ==
    IF q.n = 0 THEN <<"0">>
    ELSE IF q.n < 0 THEN <<"-">> \o FormatFixed([n |-> -q.n, d |-> q.d])
    ELSE FormatFixed(q)

\* The texts convert(result) can give: a NaN prints with or without its sign bit.
Formats(q) ==
    IF IsFinite(q) THEN {FormatDouble(q)}
    ELSE IF q.n = 0 THEN {<<"n", "a", "n">>, <<"-", "n", "a", "n">>}
    ELSE IF q.n > 0 THEN {<<"i", "n", "f">>}
    ELSE {<<"-", "i", "n", "f">>}

\* ------------------------------------------------------------------ statistics

RECURSIVE accumulate(_, _)
accumulate(v, init) ==
    IF v = <<>> THEN init ELSE accumulate(Tail(v), RatAdd(init, Head(v)))

mean(v) == RatDiv(accumulate(v, Rat(0, 1)), Len(v))

\* nth_element(first, first + n, last) followed by v[n]: the element that has at
\* most n elements below it and more than n elements not above it (0-based n).
nth_element(v, n) ==
    LET x == CHOOSE i \in 1..Len(v) :
                 /\ Cardinality({j \in 1..Len(v) : RatLess(v[j], v[i])}) <= n
                 /\ Cardinality({j \in 1..Len(v) : ~RatLess(v[i], v[j])}) > n
    IN  v[x]

median_Lower(v) == nth_element(v, (Len(v) - 1) \div 2)

median(v) == nth_element(v, Len(v) \div 2)

RECURSIVE min_from(_, _)
min_from(v, best) ==
    IF v = <<>> THEN best
    ELSE min_from(Tail(v), IF RatLess(Head(v), best) THEN Head(v) ELSE best)

min_element(v) == min_from(Tail(v), Head(v))

RECURSIVE max_from(_, _)
max_from(v, best) ==
    IF v = <<>> THEN best
    ELSE max_from(Tail(v), IF RatLess(best, Head(v)) THEN Head(v) ELSE best)

max_element(v) == max_from(Tail(v), Head(v))

\* ------------------------------------------------------------------ records

\* std::map iterates its keys in ascending order.
SampleOrder == <<"S1", "S2", "S3", "S4">>

sGenotype == <<"0", "/", "1">>

NoDP == (sGT :> <<sGenotype>>)

WithDP(values) == (sGT :> <<sGenotype>>) @@ (sDP :> values)

\* What one sample of a record of Spec carries for DP: nothing, one number,
\* two values, one value that is no number.
SampleChoices ==
    { NoDP,
      WithDP(<< <<"1", "0">> >>),
      WithDP(<< <<"2", "0">>, <<"2", "1">> >>),
      WithDP(<< <<"x">> >>) }

\* The INFO column of an input record: AF alone, or AF and several stale DPM values.
InfoChoices ==
    { (sAF :> << <<"0", ".", "5">> >>),
      (sAF :> << <<"0", ".", "5">> >>) @@ (sDPM :> << <<"7">>, <<"8">> >>) }

Records ==
    { [info |-> i, samples |-> s] : i \in InfoChoices, s \in [{"S1", "S2"} -> SampleChoices] }

\* The records of SpecAgg: four samples, one stale DPM value, numeric DP values
\* that make every rank and every even and odd count happen.
RichSampleChoices ==
    { NoDP,
      WithDP(<< <<"1">> >>),
      WithDP(<< <<"2">> >>),
      WithDP(<< <<"3">> >>),
      WithDP(<< <<"4">> >>),
      WithDP(<< <<"1", "0">> >>),
      WithDP(<< <<"2", "0">> >>),
      WithDP(<< <<"2", ".", "5">> >>),
      WithDP(<< <<"2", "0">>, <<"2", "1">> >>),
      WithDP(<< <<"x">> >>) }

RichRecords ==
    { [info |-> (sAF :> << <<"0", ".", "5">> >>) @@ (sDPM :> << <<"7">> >>), samples |-> s] :
        s \in [{"S1", "S2", "S3"} -> RichSampleChoices]
              \cup [{"S1", "S2", "S3", "S4"} -> RichSampleChoices] }

NoVariant == [info |-> << >>, samples |-> << >>]

FieldArgs == {sEmpty, sDP, sGT}

InfoArgs == {sEmpty, sDPM, sAF}

StatTypes == {"MEAN", "MEDIAN", "MIN", "MAX"}

\* What reading v[0] of an empty vector, or *end(), can yield when it does not trap.
Garbage == {Rat(0, 1), NaN}

\* ------------------------------------------------------------------ state

VARIABLES
    pc,           \* position in main
    argc,         \* number of command-line words
    optind,       \* getopt's index of the next word
    c,            \* the last value getopt_long returned
    sampleField,  \* -f
    infoField,    \* -i
    statType,     \* -a -m -n -x
    isOpen,       \* variantFile.is_open()
    header,       \* variantFile.header, a sequence of lines
    inp,          \* the records getNextVariant has delivered so far
    var,          \* the Variant being processed
    vals,         \* the values collected from var
    result,       \* the statistic of vals
    out,          \* standard output: the header, then records
    err,          \* standard error: one entry per message
    exitCode      \* -1 while running, then the process status

vars == <<pc, argc, optind, c, sampleField, infoField, statType, isOpen, header,
          inp, var, vals, result, out, err, exitCode>>

optionVars == <<sampleField, infoField, statType>>

recordVars == <<inp, var, vals, result>>

InputHeader == << <<"#", "#", "f", "i", "l", "e", "f", "o", "r", "m", "a", "t", "=", "V", "C", "F">> >>

Init ==
    /\ pc = "main"
    /\ argc \in 1..MaxArgc
    /\ optind = 1
    /\ c = "none"
    /\ sampleField = sEmpty
    /\ infoField = sEmpty
    /\ statType = "MEAN"
    /\ isOpen = FALSE
    /\ header = <<>>
    /\ inp = <<>>
    /\ var = NoVariant
    /\ vals = <<>>
    /\ result = Rat(0, 1)
    /\ out = <<>>
    /\ err = <<>>
    /\ exitCode = -1

\* ------------------------------------------------------------------ options

\* printSummary ends the process itself, with status 0.
printSummary ==
    /\ err' = Append(err, "usage")
    /\ exitCode' = 0
    /\ pc' = "exit"

CheckArgc ==
    /\ pc = "main"
    /\ IF argc = 1
       THEN /\ printSummary
            /\ UNCHANGED <<argc, optind, c, optionVars, isOpen, header, recordVars, out>>
       ELSE /\ pc' = "getopt"
            /\ UNCHANGED <<argc, optind, c, optionVars, isOpen, header, recordVars, out,
                           err, exitCode>>

\* getopt_long returns -1: no word is left, or the words left are no options.
OptEnd ==
    /\ pc = "getopt"
    /\ c' = "end"
    /\ pc' = "config"
    /\ UNCHANGED <<argc, optind, optionVars, isOpen, header, recordVars, out, err, exitCode>>

OptField(arg) ==
    /\ pc = "getopt"
    /\ optind < argc
    /\ c' = "f"
    /\ optind' = optind + 1
    /\ sampleField' = arg
    /\ UNCHANGED <<pc, argc, infoField, statType, isOpen, header, recordVars, out, err,
                   exitCode>>

OptInfo(arg) ==
    /\ pc = "getopt"
    /\ optind < argc
    /\ c' = "i"
    /\ optind' = optind + 1
    /\ infoField' = arg
    /\ UNCHANGED <<pc, argc, sampleField, statType, isOpen, header, recordVars, out, err,
                   exitCode>>

StatOfOption(o) ==
    CASE o = "a" -> "MEAN"
      [] o = "m" -> "MEDIAN"
      [] o = "n" -> "MIN"
      [] o = "x" -> "MAX"

OptStat(o) ==
    /\ pc = "getopt"
    /\ optind < argc
    /\ c' = o
    /\ optind' = optind + 1
    /\ statType' = StatOfOption(o)
    /\ UNCHANGED <<pc, argc, sampleField, infoField, isOpen, header, recordVars, out, err,
                   exitCode>>

OptHelp ==
    /\ pc = "getopt"
    /\ optind < argc
    /\ c' = "h"
    /\ optind' = optind + 1
    /\ printSummary
    /\ UNCHANGED <<argc, optionVars, isOpen, header, recordVars, out>>

\* case '?': printSummary(argv) does not return, so the exit(1) after it never runs.
OptUnknown ==
    /\ pc = "getopt"
    /\ optind < argc
    /\ c' = "?"
    /\ optind' = optind + 1
    /\ printSummary
    /\ UNCHANGED <<argc, optionVars, isOpen, header, recordVars, out>>

CheckConfig ==
    /\ pc = "config"
    /\ IF infoField = sEmpty \/ sampleField = sEmpty
       THEN /\ err' = Append(err, "Error: both a sample field and an info field are required.")
            /\ exitCode' = 1
            /\ pc' = "exit"
       ELSE /\ pc' = "open"
            /\ UNCHANGED <<err, exitCode>>
    /\ UNCHANGED <<argc, optind, c, optionVars, isOpen, header, recordVars, out>>

\* variantFile.open of the named file (optind = argc - 1) or of standard input,
\* then the is_open test.
OpenInput(ok) ==
    /\ pc = "open"
    /\ isOpen' = ok
    /\ IF ok
       THEN /\ header' = InputHeader
            /\ pc' = "header"
            /\ UNCHANGED exitCode
       ELSE /\ exitCode' = 1
            /\ pc' = "exit"
            /\ UNCHANGED header
    /\ UNCHANGED <<argc, optind, c, optionVars, recordVars, out, err>>

\* ------------------------------------------------------------------ header

statTypeStr(st) ==
    CASE st = "MEAN" -> <<"m", "e", "a", "n">>
      [] st = "MEDIAN" -> <<"m", "e", "d", "i", "a", "n">>
      [] st = "MIN" -> <<"m", "i", "n">>
      [] st = "MAX" -> <<"m", "a", "x">>

HdrPrefix == <<"#", "#", "I", "N", "F", "O", "=", "<", "I", "D", "=">>

HdrMiddle ==
    <<",", "N", "u", "m", "b", "e", "r", "=", "1", ",", "T", "y", "p", "e", "=", "F", "l",
      "o", "a", "t", ",", "D", "e", "s", "c", "r", "i", "p", "t", "i", "o", "n", "=", "\"",
      "S", "u", "m", "m", "a", "r", "y", " ", "s", "t", "a", "t", "i", "s", "t", "i", "c",
      " ", "g", "e", "n", "e", "r", "a", "t", "e", "d", " ", "b", "y">>

HdrOf ==
    <<" ", "o", "f", " ", "p", "e", "r", "-", "s", "a", "m", "p", "l", "e", " ", "v", "a",
      "l", "u", "e", "s", " ", "o", "f", " ">>

HdrSuffix == <<" ", "\"", ">">>

\* The argument of addHeaderLine, concatenated as line 176 concatenates it.
InfoLine(info, st, field) ==
    HdrPrefix \o info \o HdrMiddle \o statTypeStr(st) \o HdrOf \o field \o HdrSuffix

addHeaderLine(h, line) == Append(h, line)

Write_Front(o, item) == <<item>> \o o

\* cout << item << endl
Write(o, item) == Append(o, item)

AddHeader ==
    /\ pc = "header"
    /\ IF statType \in StatTypes
       THEN /\ header' = addHeaderLine(header, InfoLine(infoField, statType, sampleField))
            /\ out' = Write(out, [kind |-> "header", body |-> header'])
            /\ pc' = "loop"
            /\ UNCHANGED <<err, exitCode>>
       ELSE /\ err' = Append(err, "Error: failure to convert stat type to string")
            /\ exitCode' = 1
            /\ pc' = "exit"
            /\ UNCHANGED <<header, out>>
    /\ UNCHANGED <<argc, optind, c, optionVars, isOpen, recordVars>>

\* ------------------------------------------------------------------ records loop

\* getNextVariant delivers the next record of the stream.
getNextVariant(stream) ==
    /\ pc = "loop"
    /\ \E r \in stream :
          /\ var' = r
          /\ inp' = Append(inp, r)
    /\ pc' = "collect"
    /\ UNCHANGED <<argc, optind, c, optionVars, isOpen, header, vals, result, out, err,
                   exitCode>>

ReadVariant ==
    /\ Len(inp) < MaxRecords
    /\ getNextVariant(Records)

\* getNextVariant finds the stream exhausted: return 0.
EndOfStream ==
    /\ pc = "loop"
    /\ exitCode' = 0
    /\ pc' = "exit"
    /\ UNCHANGED <<argc, optind, c, optionVars, isOpen, header, recordVars, out, err>>

CollectSample_NoSizeCheck(sample, field, acc) ==
    IF field \notin DOMAIN sample THEN [status |-> "ok", vals |-> acc]
    ELSE IF ~convert(Head(sample[field])).ok THEN [status |-> "parse", vals |-> acc]
    ELSE [status |-> "ok", vals |-> Append(acc, convert(Head(sample[field])).val)]

CollectSample_ZeroForMissing(sample, field, acc) ==
    IF field \notin DOMAIN sample THEN [status |-> "ok", vals |-> Append(acc, Rat(0, 1))]
    ELSE IF Len(sample[field]) > 1 THEN [status |-> "multi", vals |-> acc]
    ELSE IF ~convert(Head(sample[field])).ok THEN [status |-> "parse", vals |-> acc]
    ELSE [status |-> "ok", vals |-> Append(acc, convert(Head(sample[field])).val)]

\* The body of the loop over var.samples for one sample (lines 185-195).
CollectSample(sample, field, acc) ==
    IF field \notin DOMAIN sample THEN [status |-> "ok", vals |-> acc]
    ELSE IF Len(sample[field]) > 1 THEN [status |-> "multi", vals |-> acc]
    ELSE IF ~convert(Head(sample[field])).ok THEN [status |-> "parse", vals |-> acc]
    ELSE [status |-> "ok", vals |-> Append(acc, convert(Head(sample[field])).val)]

\* The loop over var.samples, in the order of the map's keys, from the i-th on.
RECURSIVE CollectFrom(_, _, _, _)
CollectFrom(samples, field, i, acc) ==
    IF i > Len(SampleOrder) THEN [status |-> "ok", vals |-> acc]
    ELSE IF SampleOrder[i] \notin DOMAIN samples THEN CollectFrom(samples, field, i + 1, acc)
    ELSE LET step == CollectSample(samples[SampleOrder[i]], field, acc)
         IN  IF step.status = "ok" THEN CollectFrom(samples, field, i + 1, step.vals)
             ELSE step

Collect ==
    /\ pc = "collect"
    /\ LET got == CollectFrom(var.samples, sampleField, 1, <<>>)
       IN  CASE got.status = "ok" ->
                  /\ vals' = got.vals
                  /\ pc' = "stat"
                  /\ UNCHANGED <<err, exitCode>>
             [] got.status = "multi" ->
                  /\ err' = Append(err, "Error: cannot handle sample fields with multiple values")
                  /\ exitCode' = 1
                  /\ pc' = "exit"
                  /\ UNCHANGED vals
             [] got.status = "parse" ->
                  /\ err' = Append(err, "Error: value is not a number")
                  /\ exitCode' = 1
                  /\ pc' = "exit"
                  /\ UNCHANGED vals
    /\ UNCHANGED <<argc, optind, c, optionVars, isOpen, header, inp, var, result, out>>

Statistic(st, v) ==
    CASE st = "MEAN" -> mean(v)
      [] st = "MEDIAN" -> median(v)
      [] st = "MIN" -> min_element(v)
      [] st = "MAX" -> max_element(v)

\* The switch on statType where the statistic is defined: any vals for the mean
\* (0.0 / 0 is NaN), one value or more for the others.
Compute ==
    /\ pc = "stat"
    /\ statType = "MEAN" \/ vals # <<>>
    /\ IF statType \in StatTypes
       THEN /\ result' = Statistic(statType, vals)
            /\ pc' = "emit"
            /\ UNCHANGED <<err, exitCode>>
       ELSE /\ err' = Append(err, "Error: unrecognized StatType")
            /\ exitCode' = 1
            /\ pc' = "exit"
            /\ UNCHANGED result
    /\ UNCHANGED <<argc, optind, c, optionVars, isOpen, header, inp, var, vals, out>>

\* median, min_element and max_element of an empty vals read v[0] or *end() of an
\* empty vector: the read traps (SIGSEGV, status 139) ...
ComputeTrap ==
    /\ pc = "stat"
    /\ statType \in {"MEDIAN", "MIN", "MAX"}
    /\ vals = <<>>
    /\ exitCode' = 139
    /\ pc' = "exit"
    /\ UNCHANGED <<argc, optind, c, optionVars, isOpen, header, recordVars, out, err>>

\* ... or yields whatever the memory holds.
ComputeGarbage(g) ==
    /\ pc = "stat"
    /\ statType \in {"MEDIAN", "MIN", "MAX"}
    /\ vals = <<>>
    /\ result' = g
    /\ pc' = "emit"
    /\ UNCHANGED <<argc, optind, c, optionVars, isOpen, header, inp, var, vals, out, err,
                   exitCode>>

SetInfo_ClearAll(info, key, text) == (key :> <<text>>)

\* var.info[infoField].clear(); var.info[infoField].push_back(text)
SetInfo(info, key, text) ==
    [k \in DOMAIN info \cup {key} |-> IF k = key THEN <<text>> ELSE info[k]]

Emit(text) ==
    /\ pc = "emit"
    /\ var' = [var EXCEPT !.info = SetInfo(var.info, infoField, text)]
    /\ out' = Write(out, [kind |-> "record", body |-> var'])
    /\ pc' = "loop"
    /\ UNCHANGED <<argc, optind, c, optionVars, isOpen, header, inp, vals, result, err,
                   exitCode>>

Next ==
    \/ CheckArgc
    \/ OptEnd
    \/ \E arg \in FieldArgs : OptField(arg)
    \/ \E arg \in InfoArgs : OptInfo(arg)
    \/ \E o \in {"a", "m", "n", "x"} : OptStat(o)
    \/ OptHelp
    \/ OptUnknown
    \/ CheckConfig
    \/ \E ok \in BOOLEAN : OpenInput(ok)
    \/ AddHeader
    \/ ReadVariant
    \/ EndOfStream
    \/ Collect
    \/ Compute
    \/ ComputeTrap
    \/ \E g \in Garbage : ComputeGarbage(g)
    \/ (pc = "emit" /\ \E text \in Formats(result) : Emit(text))

Spec == Init /\ [][Next]_vars

\* ------------------------------------------------------------------ one record

\* The state main is in when it enters the loop after -f DP -i DPM and one
\* statistic option, with the header written.
InitAgg ==
    /\ pc = "loop"
    /\ argc = 4
    /\ optind = 4
    /\ c = "end"
    /\ sampleField = sDP
    /\ infoField = sDPM
    /\ statType \in StatTypes
    /\ isOpen = TRUE
    /\ header = addHeaderLine(InputHeader, InfoLine(infoField, statType, sampleField))
    /\ inp = <<>>
    /\ var = NoVariant
    /\ vals = <<>>
    /\ result = Rat(0, 1)
    /\ out = Write(<<>>, [kind |-> "header", body |-> header])
    /\ err = <<>>
    /\ exitCode = -1

\* The first record of the stream, drawn from RichRecords.
ReadFirstVariant ==
    /\ inp = <<>>
    /\ getNextVariant(RichRecords)

NextAgg ==
    \/ ReadFirstVariant
    \/ EndOfStream
    \/ Collect
    \/ Compute
    \/ ComputeTrap
    \/ \E g \in Garbage : ComputeGarbage(g)
    \/ (pc = "emit" /\ \E text \in Formats(result) : Emit(text))

SpecAgg == InitAgg /\ [][NextAgg]_vars

\* ------------------------------------------------------------------ properties

NumEmitted == IF out = <<>> THEN 0 ELSE Len(out) - 1

Emitted(i) == out[i + 1].body

HasField(r, s) == s \in DOMAIN r.samples /\ sampleField \in DOMAIN r.samples[s]

HasMulti(r) == \E s \in DOMAIN r.samples : HasField(r, s) /\ Len(r.samples[s][sampleField]) > 1

HasNonNumeric(r) ==
    \E s \in DOMAIN r.samples :
        /\ HasField(r, s)
        /\ Len(r.samples[s][sampleField]) = 1
        /\ ~ParseOk(r.samples[s][sampleField][1])

\* The samples of r that carry the source field, and their values, by the
\* definition of the statistic's input rather than by the loop.
Carriers(r) == SelectSeq(SampleOrder, LAMBDA s : HasField(r, s))

CarriedVals(r) ==
    [i \in 1..Len(Carriers(r)) |-> ParseVal(r.samples[Carriers(r)[i]][sampleField][1])]

RECURSIVE InsertSorted(_, _)
InsertSorted(x, v) ==
    IF v = <<>> THEN <<x>>
    ELSE IF RatLess(Head(v), x) THEN <<Head(v)>> \o InsertSorted(x, Tail(v))
    ELSE <<x>> \o v

RECURSIVE SortAsc(_)
SortAsc(v) == IF v = <<>> THEN <<>> ELSE InsertSorted(Head(v), SortAsc(Tail(v)))

\* The sum of v over a common denominator.
SumOf(v) ==
    LET RECURSIVE Den(_)
        Den(k) == IF k = 0 THEN 1 ELSE v[k].d * Den(k - 1)
        RECURSIVE Num(_)
        Num(k) == IF k = 0 THEN 0 ELSE Num(k - 1) + v[k].n * (Den(Len(v)) \div v[k].d)
    IN  Rat(Num(Len(v)), Den(Len(v)))

IsFloatLiteral(s) ==
    LET body == IF s # <<>> /\ s[1] = "-" THEN Tail(s) ELSE s
    IN  /\ body # <<>>
        /\ \A i \in 1..Len(body) : IsDigit(body[i]) \/ body[i] = "."
        /\ Cardinality({i \in 1..Len(body) : body[i] = "."}) <= 1
        /\ IsDigit(body[1]) /\ IsDigit(body[Len(body)])

MultiValueMessage == "Error: cannot handle sample fields with multiple values"

\* S1 (DP=10), S2 (DP=20), S3 (no DP)
ScenarioRecord ==
    [info |-> (sAF :> << <<"0", ".", "5">> >>) @@ (sDPM :> << <<"7">> >>),
     samples |-> ("S1" :> WithDP(<< <<"1", "0">> >>)) @@ ("S2" :> WithDP(<< <<"2", "0">> >>))
                 @@ ("S3" :> NoDP)]

\* C1: a record in which a sample's source field holds two or more values is the
\* last record read; once the loop over its samples has run the process has
\* ended with status 1, and standard output holds the header and the records
\* before it only.
C1_MultiValueAborts ==
    \A i \in 1..Len(inp) :
        HasMulti(inp[i]) =>
            /\ i = Len(inp)
            /\ NumEmitted = i - 1
            /\ pc \in {"collect", "exit"}
            /\ pc = "exit" => exitCode = 1

C1_Witness ==
    /\ pc = "exit"
    /\ exitCode = 1
    /\ Len(inp) = 2
    /\ HasMulti(inp[2])
    /\ ~HasNonNumeric(inp[2])
    /\ NumEmitted = 1
    /\ err = <<MultiValueMessage>>

\* C2: no run is cut short by the computation of the statistic, and in every
\* emitted record the destination annotation holds exactly one value, a
\* floating-point literal, which for a record with carriers is the text of the
\* statistic of their values.
C2_OneFloatAlways ==
    /\ exitCode # 139
    /\ \A i \in 1..NumEmitted :
          /\ infoField \in DOMAIN Emitted(i).info
          /\ Len(Emitted(i).info[infoField]) = 1
          /\ IsFloatLiteral(Emitted(i).info[infoField][1])

\* C3: with MEDIAN and one or more collected values, the result is the element
\* at 0-based index floor(n/2) of the values sorted in ascending order.
C3_MedianIsSortedMiddle ==
    (pc = "emit" /\ statType = "MEDIAN" /\ vals # <<>>) =>
        result = SortAsc(vals)[(Len(vals) \div 2) + 1]

C3_Witness ==
    /\ pc = "emit"
    /\ statType = "MEDIAN"
    /\ vals = <<Rat(4, 1), Rat(1, 1), Rat(3, 1), Rat(2, 1)>>
    /\ result = Rat(3, 1)

\* C4 as stated: with MEDIAN and an even number of collected values the result
\* is the lower of the two middle elements, and the scenario record
\* (10, 20, missing) is emitted with the destination set to 10.
C4_LowerMiddle ==
    /\ (pc = "emit" /\ statType = "MEDIAN" /\ vals # <<>> /\ Len(vals) % 2 = 0) =>
          result = SortAsc(vals)[Len(vals) \div 2]
    /\ (statType = "MEDIAN" /\ inp = <<ScenarioRecord>> /\ NumEmitted = 1) =>
          Emitted(1).info[infoField] = << <<"1", "0">> >>

\* C4 amended: with MEDIAN and an even number of collected values the result is
\* the upper of the two middle elements of the sorted values, and the scenario
\* record (10, 20, missing) has collected values [10,20] and is emitted with the
\* destination set to 20.
C4_UpperMiddle ==
    /\ (pc = "emit" /\ statType = "MEDIAN" /\ vals # <<>> /\ Len(vals) % 2 = 0) =>
          result = SortAsc(vals)[(Len(vals) \div 2) + 1]
    /\ (statType = "MEDIAN" /\ inp = <<ScenarioRecord>> /\ pc \in {"stat", "emit", "loop"}) =>
          vals = <<Rat(10, 1), Rat(20, 1)>>
    /\ (statType = "MEDIAN" /\ inp = <<ScenarioRecord>> /\ NumEmitted = 1) =>
          Emitted(1).info[infoField] = << <<"2", "0">> >>

C4_Witness ==
    /\ statType = "MEDIAN"
    /\ inp = <<ScenarioRecord>>
    /\ NumEmitted = 1
    /\ vals = <<Rat(10, 1), Rat(20, 1)>>
    /\ Emitted(1).info[infoField] = << <<"2", "0">> >>

\* C5: a record in which a sample's single value for the source field is no
\* number is the last record read; once the loop over its samples has run the
\* process has ended with a failure status, and the record is not emitted.
C5_NonNumericIsFatal ==
    \A i \in 1..Len(inp) :
        HasNonNumeric(inp[i]) =>
            /\ i = Len(inp)
            /\ NumEmitted = i - 1
            /\ pc \in {"collect", "exit"}
            /\ pc = "exit" => exitCode \notin {-1, 0}

C5_Witness ==
    /\ pc = "exit"
    /\ exitCode = 1
    /\ Len(inp) = 2
    /\ HasNonNumeric(inp[2])
    /\ ~HasMulti(inp[2])
    /\ sampleField = sDP
    /\ NumEmitted = 1

\* C6: the process ends with status 0 only at the end of the stream, for --help
\* and for an invocation without arguments; a run ended by an unrecognised
\* option, a missing or empty field name, an input that does not open or a
\* multi-value sample field ends with status 1.
C6_ExitStatus ==
    pc = "exit" =>
        /\ exitCode = 0 => \/ argc = 1
                           \/ c = "h"
                           \/ (c = "end" /\ isOpen /\ NumEmitted = Len(inp))
        /\ c = "?" => exitCode = 1
        /\ (c = "end" /\ (sampleField = sEmpty \/ infoField = sEmpty)) => exitCode = 1
        /\ (c = "end" /\ sampleField # sEmpty /\ infoField # sEmpty /\ ~isOpen) => exitCode = 1
        /\ (inp # <<>> /\ HasMulti(inp[Len(inp)])) => exitCode = 1

\* C7: the line added to the header is
\* ##INFO=<ID=<infoField>,Number=1,Type=Float,Description="Summary statistic
\* generated by <statName> of per-sample values of <sampleField> ">, with one
\* space between "by" and the statistic's name.
C7_HeaderLine ==
    out # <<>> =>
        header[Len(header)] =
            HdrPrefix \o infoField \o HdrMiddle \o <<" ">> \o statTypeStr(statType)
                \o HdrOf \o sampleField \o HdrSuffix

\* C8: once the input is open and the header written, standard output is the
\* augmented header, once and first, then one record per input record in input
\* order, the i-th made from the i-th input record by setting its destination
\* annotation; a record is written before the next one is read; what has been
\* written is never changed, and the header is not changed after it is written.
C8_OutputState ==
    /\ pc \in {"loop", "collect", "stat", "emit"} => out # <<>>
    /\ out # <<>> =>
          /\ out[1] = [kind |-> "header", body |-> header]
          /\ Len(header) = Len(InputHeader) + 1
          /\ \A i \in 1..NumEmitted :
                /\ out[i + 1].kind = "record"
                /\ i <= Len(inp)
                /\ infoField \in DOMAIN Emitted(i).info
                /\ \E text \in {Emitted(i).info[infoField][1]} :
                      Emitted(i) =
                          [inp[i] EXCEPT !.info =
                              (infoField :> <<text>>) @@ inp[i].info]
          /\ IF pc = "loop" \/ (pc = "exit" /\ exitCode = 0)
             THEN NumEmitted = Len(inp)
             ELSE NumEmitted = Len(inp) - 1

C8_OutputStep ==
    /\ (out # <<>> => (Len(out') >= Len(out) /\ SubSeq(out', 1, Len(out)) = out))
    /\ (out # <<>> => header' = header)
    /\ (Len(inp') > Len(inp) => NumEmitted = Len(inp))

C8_OrderedOutput == []C8_OutputState /\ [][C8_OutputStep]_vars

C8_Witness ==
    /\ pc = "loop"
    /\ Len(inp) = 2
    /\ NumEmitted = 2
    /\ inp[1] # inp[2]
    /\ Emitted(1) # Emitted(2)

\* C9: with MEAN and at least one sample carrying the source field, the
\* collected values are the values of exactly the samples that carry it, the
\* result is their sum divided by their count, a sample without the field
\* raises no error, and the scenario record (10, 20, missing) gives 15.
C9_MeanOfCarriers ==
    /\ (pc \in {"stat", "emit"}) => vals = CarriedVals(var)
    /\ (pc = "emit" /\ statType = "MEAN" /\ Carriers(var) # <<>>) =>
          /\ result = Rat(SumOf(CarriedVals(var)).n,
                          SumOf(CarriedVals(var)).d * Len(Carriers(var)))
    /\ (pc = "exit" /\ exitCode # 0) => (HasMulti(var) \/ HasNonNumeric(var) \/ Carriers(var) = <<>>)
    /\ (statType = "MEAN" /\ inp = <<ScenarioRecord>> /\ NumEmitted = 1) =>
          Emitted(1).info[infoField] = << <<"1", "5">> >>

C9_Witness ==
    /\ statType = "MEAN"
    /\ inp = <<ScenarioRecord>>
    /\ NumEmitted = 1
    /\ result = Rat(15, 1)
    /\ Emitted(1).info[infoField] = << <<"1", "5">> >>

\* C10: an emitted record has the samples of the input record it was made from,
\* with the same fields and values, and the same site-level annotations but for
\* the destination; until it is emitted the record in hand is the record read.
C10_OnlyDestinationChanges ==
    /\ \A i \in 1..NumEmitted :
          /\ Emitted(i).samples = inp[i].samples
          /\ DOMAIN Emitted(i).info = DOMAIN inp[i].info \cup {infoField}
          /\ \A k \in DOMAIN inp[i].info : k # infoField => Emitted(i).info[k] = inp[i].info[k]
    /\ pc \in {"collect", "stat", "emit"} => var = inp[Len(inp)]

C10_Witness ==
    /\ NumEmitted = 1
    /\ infoField = sDPM
    /\ sDPM \in DOMAIN inp[1].info
    /\ \E s \in DOMAIN inp[1].samples : ~HasField(inp[1], s)
    /\ \E s \in DOMAIN inp[1].samples : HasField(inp[1], s)
    /\ Emitted(1).info[sAF] = inp[1].info[sAF]
    /\ Emitted(1).info[sDPM] # inp[1].info[sDPM]

====
